---- MODULE Spec2Model ----
(***************************************************************************)
(* Model of the schema migration engine (src/src/migrations/migrate.py),   *)
(* of the deployment lifecycle tracker (src/src/db.py) and of the health   *)
(* handler that reads it (src/src/mock_service.py).                        *)
(*                                                                         *)
(* The store is an SQLite database reached through Python's sqlite3        *)
(* module in its default (legacy) transaction mode: a transaction is       *)
(* opened implicitly before INSERT/UPDATE/DELETE only, so a DDL statement  *)
(* executed while no transaction is open is committed by SQLite as soon as *)
(* it completes, and conn.rollback() discards only the pending row writes. *)
(***************************************************************************)
EXTENDS Integers, Sequences, FiniteSets, TLC

\* ---------------------------------------------------------------- bounds
MaxRuns == 2      \* migrate runs (invocations of main) explored
MaxFaults == 1    \* statements that raise an exception, over all runs
MaxClock == 2     \* seconds CURRENT_TIMESTAMP advances through

\* SQL NULL / Python None; a present value v is held as <<v>>
NULL == << >>

Val(v) == <<v>>

\* ------------------------------------------------------------- migrate.py
VARIABLES
    tables,           \* names of the tables and indexes that exist in the store
    schema_version,   \* committed rows of schema_version: [version, applied_at]
    pending,          \* rows written by the connection's open transaction
    clock,            \* CURRENT_TIMESTAMP, one-second resolution
    pc,               \* position of main()
    current_version,  \* main's local current_version
    version,          \* main's loop variable
    stmt,             \* index of the next statement of the running step
    ret,              \* main's return value (process exit code), -1 while running
    called,           \* versions whose step function this run has called, in order
    warned,           \* versions this run printed "WARNING: ... not found" for, in order
    registry,         \* the keys of MIGRATIONS main runs with
    run_start,        \* the store as it was when this run connected
    last_commit,      \* the store as it was after this run's last step commit
    failed_at,        \* version of the step that raised in this run, 0 = none
    faulted,          \* some statement of this run raised (also a swallowed one)
    runs,             \* number of runs started
    faults            \* number of exceptions raised so far

mvars == <<tables, schema_version, pending, clock, pc, current_version, version,
           stmt, ret, called, warned, registry, run_start, last_commit, failed_at,
           faulted, runs, faults>>

\* --------------------------------------------------------------- db.py
VARIABLES
    deployment_metrics,  \* rows of table deployment_metrics
    sqlite_sequence,     \* AUTOINCREMENT: the largest id ever assigned
    now,                 \* the last reading of datetime.now()
    last,                \* the tracker call just made: operation, arguments, outcome
    before,              \* rows of deployment_metrics before that call
    returned,            \* the ids start_deployment_tracking has returned, in order
    ops                  \* number of tracker calls that changed the rows

tvars == <<deployment_metrics, sqlite_sequence, now, last, before, returned, ops>>

vars == <<mvars, tvars>>

Create(name) == [kind |-> "create", name |-> name, version |-> 0]
Insert(v) == [kind |-> "insert", name |-> "schema_version", version |-> v]
Commit == [kind |-> "commit", name |-> "", version |-> 0]

\* the statements of each step, in program order
apply_migration_v1 ==
    << Create("dicom_studies"), Create("gateway_logs"), Insert(1), Commit >>

apply_migration_v2 ==
    << Create("performance_metrics"), Create("idx_metrics_timestamp"), Insert(2), Commit >>

apply_migration_v3 ==
    << Create("deployment_history"), Create("idx_deployment_version"),
       Create("idx_deployment_date"), Insert(3), Commit >>

apply_migration_v4 ==
    << Create("deployment_metrics"), Create("idx_metrics_version"),
       Create("idx_metrics_started"), Create("idx_metrics_status"), Insert(4), Commit >>

MIGRATIONS ==
    (1 :> apply_migration_v1) @@ (2 :> apply_migration_v2) @@
    (3 :> apply_migration_v3) @@ (4 :> apply_migration_v4)

SetMax(S) == CHOOSE m \in S : \A x \in S : x <= m

TARGET_VERSION == SetMax(DOMAIN MIGRATIONS)

\* the structures (tables, indexes) the step for version v creates
Structures(v) == { MIGRATIONS[v][i].name : i \in { j \in 1..Len(MIGRATIONS[v]) : MIGRATIONS[v][j].kind = "create" } }

AllStructures == UNION { Structures(v) : v \in DOMAIN MIGRATIONS }

Versions(rows) == { r.version : r \in rows }

\* get_schema_version: SELECT version FROM schema_version ORDER BY applied_at
\* DESC LIMIT 1.  The set of values the call can return: SQL leaves the order
\* of rows with equal applied_at unspecified, so any row with the newest
\* applied_at can be the first one.
get_schema_version(tbls, rows) ==
    IF "schema_version" \notin tbls THEN {0}
    ELSE IF rows = {} THEN {0}
    ELSE { r.version : r \in { q \in rows : \A o \in rows : o.applied_at <= q.applied_at } }

\* first version of range(current_version + 1, TARGET_VERSION + 1)
RangeStart_off(c) == c

RangeStart(c) == c + 1

Store == [tables |-> tables, rows |-> schema_version]

InitStore ==
    /\ tables = {}
    /\ schema_version = {}
    /\ pending = {}
    /\ clock = 1
    /\ pc = "idle"
    /\ current_version = 0
    /\ version = 0
    /\ stmt = 0
    /\ ret = -1
    /\ called = << >>
    /\ warned = << >>
    /\ run_start = [tables |-> {}, rows |-> {}]
    /\ last_commit = [tables |-> {}, rows |-> {}]
    /\ failed_at = 0
    /\ faulted = FALSE
    /\ runs = 0
    /\ faults = 0

\* a fresh store, and main with the registry as shipped
InitMig == InitStore /\ registry = DOMAIN MIGRATIONS

EmptyMap == [c \in {} |-> NULL]

NoCall == [op |-> "none", id |-> 0, fields |-> EmptyMap, raised |-> "", result |-> NULL]

\* an empty tracker: no row was ever inserted
InitTracker ==
    /\ deployment_metrics = {}
    /\ sqlite_sequence = 0
    /\ now = 1
    /\ last = NoCall
    /\ before = {}
    /\ returned = << >>
    /\ ops = 0

InitFresh == InitMig /\ InitTracker

\* main, lines 224-232: a new process connects to the store
StartRun ==
    /\ pc \in {"idle", "done"}
    /\ runs < MaxRuns
    /\ runs' = runs + 1
    /\ pc' = "create_table"
    /\ current_version' = 0
    /\ version' = 0
    /\ stmt' = 0
    /\ ret' = -1
    /\ called' = << >>
    /\ warned' = << >>
    /\ run_start' = Store
    /\ last_commit' = Store
    /\ failed_at' = 0
    /\ faulted' = FALSE
    /\ UNCHANGED <<tables, schema_version, pending, clock, faults>>
    /\ UNCHANGED registry
    /\ UNCHANGED tvars

\* create_schema_version_table: CREATE TABLE IF NOT EXISTS, then commit
create_schema_version_table ==
    /\ pc = "create_table"
    /\ tables' = tables \cup {"schema_version"}
    /\ last_commit' = [tables |-> tables', rows |-> schema_version]
    /\ pc' = "get_version"
    /\ UNCHANGED <<schema_version, pending, clock, current_version, version, stmt, ret,
                   called, run_start, failed_at, faulted, runs, faults>>
    /\ UNCHANGED <<warned, registry>>
    /\ UNCHANGED tvars

\* main, line 239: current_version = get_schema_version(conn)
GetVersion ==
    /\ pc = "get_version"
    /\ \E r \in get_schema_version(tables, schema_version) : current_version' = r
    /\ pc' = "check"
    /\ UNCHANGED <<tables, schema_version, pending, clock, version, stmt, ret, called,
                   run_start, last_commit, failed_at, faulted, runs, faults>>
    /\ UNCHANGED <<warned, registry>>
    /\ UNCHANGED tvars

\* get_schema_version, lines 29-31: the SELECT raises sqlite3.OperationalError
\* (for instance "database is locked"); the handler returns 0
GetVersionError ==
    /\ pc = "get_version"
    /\ faults < MaxFaults
    /\ faults' = faults + 1
    /\ faulted' = TRUE
    /\ current_version' = 0
    /\ pc' = "check"
    /\ UNCHANGED <<tables, schema_version, pending, clock, version, stmt, ret, called,
                   run_start, last_commit, failed_at, runs>>
    /\ UNCHANGED <<warned, registry>>
    /\ UNCHANGED tvars

\* main, lines 243-248
CheckUpToDate ==
    /\ pc = "check"
    /\ IF current_version >= TARGET_VERSION
         THEN /\ ret' = 0
              /\ pc' = "done"
              /\ UNCHANGED version
         ELSE /\ version' = RangeStart(current_version)
              /\ pc' = "loop"
              /\ UNCHANGED ret
    /\ UNCHANGED <<tables, schema_version, pending, clock, current_version, stmt, called,
                   run_start, last_commit, failed_at, faulted, runs, faults>>
    /\ UNCHANGED <<warned, registry>>
    /\ UNCHANGED tvars

\* if version in MIGRATIONS
Registered_all(v, reg) == TRUE

Registered(v, reg) == v \in reg

\* main, lines 250-257: one evaluation of the for statement
Loop ==
    /\ pc = "loop"
    /\ IF version <= TARGET_VERSION
         THEN IF Registered(version, registry)
                THEN /\ called' = Append(called, version)
                     /\ stmt' = 1
                     /\ pc' = "step"
                     /\ UNCHANGED <<version, ret, warned>>
                ELSE /\ warned' = Append(warned, version)   \* WARNING: not found
                     /\ version' = version + 1
                     /\ UNCHANGED <<called, stmt, pc, ret>>
         ELSE /\ ret' = 0
              /\ pc' = "done"
              /\ UNCHANGED <<called, stmt, version, warned>>
    /\ UNCHANGED <<tables, schema_version, pending, clock, current_version,
                   run_start, last_commit, failed_at, faulted, runs, faults>>
    /\ UNCHANGED registry
    /\ UNCHANGED tvars

\* one statement of the running step MIGRATIONS[version](conn)
ExecStatement ==
    /\ pc = "step"
    /\ LET s == MIGRATIONS[version][stmt]
           final == stmt = Len(MIGRATIONS[version])
       IN  /\ CASE s.kind = "create" ->
                     \* CREATE ... IF NOT EXISTS with no transaction open:
                     \* committed when the statement completes
                     /\ tables' = tables \cup {s.name}
                     /\ UNCHANGED <<schema_version, pending, last_commit>>
                [] s.kind = "insert" ->
                     \* INSERT OR IGNORE; opens the transaction implicitly
                     /\ pending' = IF s.version \in Versions(schema_version \cup pending)
                                     THEN pending
                                     ELSE pending \cup {[version |-> s.version, applied_at |-> clock]}
                     /\ UNCHANGED <<tables, schema_version, last_commit>>
                [] s.kind = "commit" ->
                     /\ schema_version' = schema_version \cup pending
                     /\ pending' = {}
                     /\ last_commit' = [tables |-> tables, rows |-> schema_version']
                     /\ UNCHANGED tables
           /\ IF final
                THEN /\ version' = version + 1
                     /\ pc' = "loop"
                     /\ UNCHANGED stmt
                ELSE /\ stmt' = stmt + 1
                     /\ UNCHANGED <<version, pc>>
    /\ UNCHANGED <<clock, current_version, ret, called, run_start, failed_at, faulted,
                   runs, faults>>
    /\ UNCHANGED <<warned, registry>>
    /\ UNCHANGED tvars

\* main, lines 259-265: a statement inside the try block raises; the handler
\* prints the error, calls conn.rollback() and returns 1
Raise ==
    /\ pc \in {"create_table", "step"}
    /\ faults < MaxFaults
    /\ faults' = faults + 1
    /\ faulted' = TRUE
    /\ failed_at' = IF pc = "step" THEN version ELSE 0
    /\ pending' = {}
    /\ ret' = 1
    /\ pc' = "done"
    /\ UNCHANGED <<tables, schema_version, clock, current_version, version, stmt, called,
                   run_start, last_commit, runs>>
    /\ UNCHANGED <<warned, registry>>
    /\ UNCHANGED tvars

\* the wall clock reaches the next second
Tick ==
    /\ clock < MaxClock
    /\ clock' = clock + 1
    /\ UNCHANGED <<tables, schema_version, pending, pc, current_version, version, stmt,
                   ret, called, run_start, last_commit, failed_at, faulted, runs, faults>>
    /\ UNCHANGED <<warned, registry>>
    /\ UNCHANGED tvars

main ==
    \/ StartRun
    \/ create_schema_version_table
    \/ GetVersion
    \/ GetVersionError
    \/ CheckUpToDate
    \/ Loop
    \/ ExecStatement
    \/ Raise

NextMig == main \/ Tick

SpecMig == InitFresh /\ [][NextMig]_vars

\* the registries main is also run with: MIGRATIONS with entries removed,
\* its highest key (TARGET_VERSION) kept
SparseRegistries ==
    { R \in SUBSET DOMAIN MIGRATIONS : TARGET_VERSION \in R /\ R # DOMAIN MIGRATIONS }

InitSparse == InitStore /\ registry \in SparseRegistries /\ InitTracker

SpecSparse == InitSparse /\ [][NextMig]_vars

\* ------------------------------------------------------------------ db.py
MaxWrites == 3    \* tracker calls that change the rows
MaxNow == 2       \* instants datetime.now() advances through

\* columns of deployment_metrics (migrate.py, apply_migration_v4).  The columns
\* previous_version, hostname, os_version, python_version, deployment_method,
\* notes and the phase durations other than extract_duration are written by
\* the same statements as the ones kept here and read by no query.
Columns ==
    {"id", "version", "deployment_started_at", "deployment_completed_at",
     "extract_duration", "total_duration", "downtime_duration",
     "health_check_success", "health_check_duration", "time_to_healthy",
     "deployment_status", "error_message"}

\* NOT NULL columns
NotNullColumns == {"version", "deployment_started_at"}

\* the table's constraints: NOT NULL, UNIQUE(version, deployment_started_at),
\* id INTEGER PRIMARY KEY
Constraints_nounique(rows) ==
    /\ \A r \in rows : \A c \in NotNullColumns : r[c] # NULL
    /\ \A r1, r2 \in rows : r1.id = r2.id => r1 = r2

Constraints(rows) ==
    /\ \A r \in rows : \A c \in NotNullColumns : r[c] # NULL
    /\ \A r1, r2 \in rows :
          (r1.version = r2.version /\ r1.deployment_started_at = r2.deployment_started_at)
              => r1 = r2
    /\ \A r1, r2 \in rows : r1.id = r2.id => r1 = r2

\* the row start_deployment_tracking inserts: the listed columns from the
\* arguments, the others from the column defaults
NewRow_success(id, v, t) ==
    [id |-> id,
     version |-> v,
     deployment_started_at |-> Val(t),
     deployment_completed_at |-> NULL,
     extract_duration |-> NULL,
     total_duration |-> NULL,
     downtime_duration |-> NULL,
     health_check_success |-> Val(0),
     health_check_duration |-> NULL,
     time_to_healthy |-> NULL,
     deployment_status |-> Val("success"),
     error_message |-> NULL]

NewRow(id, v, t) ==
    [id |-> id,
     version |-> v,
     deployment_started_at |-> Val(t),
     deployment_completed_at |-> NULL,
     extract_duration |-> NULL,
     total_duration |-> NULL,
     downtime_duration |-> NULL,
     health_check_success |-> Val(0),
     health_check_duration |-> NULL,
     time_to_healthy |-> NULL,
     deployment_status |-> Val("in-progress"),
     error_message |-> NULL]

\* UPDATE ... SET f ... on one row
SetColumns_all(r, f) ==
    [c \in DOMAIN r |-> IF c \in DOMAIN f THEN f[c]
                        ELSE IF c \in {"id"} \cup NotNullColumns THEN r[c] ELSE NULL]

SetColumns(r, f) == [c \in DOMAIN r |-> IF c \in DOMAIN f THEN f[c] ELSE r[c]]

\* WHERE id = ?
WhereId_any(r, id) == TRUE

WhereId(r, id) == r.id = id

\* execute_write of "UPDATE deployment_metrics SET <f> WHERE id = ?": the
\* exception raised ("" for none), the rows afterwards and cursor.rowcount
Update(tbls, rows, id, f) ==
    LET new == { IF WhereId(r, id) THEN SetColumns(r, f) ELSE r : r \in rows }
    IN  IF "deployment_metrics" \notin tbls \/ ~(DOMAIN f \subseteq Columns)
          THEN [raised |-> "OperationalError", rows |-> rows, rowcount |-> 0]
        ELSE IF ~Constraints(new)
          THEN [raised |-> "IntegrityError", rows |-> rows, rowcount |-> 0]
        ELSE [raised |-> "", rows |-> new,
              rowcount |-> Cardinality({ r \in rows : WhereId(r, id) })]

\* ------------------------------------------------------------ aggregation
RECURSIVE SumCol(_, _)
SumCol(S, c) ==
    IF S = {} THEN 0
    ELSE LET r == CHOOSE x \in S : TRUE IN r[c][1] + SumCol(S \ {r}, c)

RECURSIVE GCD(_, _)
GCD(a, b) == IF b = 0 THEN a ELSE GCD(b, a % b)

\* the rational n/d in lowest terms
Ratio(n, d) == LET g == GCD(n, d) IN <<n \div g, d \div g>>

NonNull(S, c) == { r \in S : r[c] # NULL }

\* SQL AVG, MIN, MAX: over the non-NULL values, NULL when there is none
AVG_zero(S, c) ==
    IF S = {} THEN NULL
    ELSE Val(Ratio(SumCol(NonNull(S, c), c), Cardinality(S)))

AVG(S, c) ==
    IF NonNull(S, c) = {} THEN NULL
    ELSE Val(Ratio(SumCol(NonNull(S, c), c), Cardinality(NonNull(S, c))))

MIN(S, c) ==
    IF NonNull(S, c) = {} THEN NULL
    ELSE Val(CHOOSE m \in { r[c][1] : r \in NonNull(S, c) } :
                 \A r \in NonNull(S, c) : m <= r[c][1])

MAX(S, c) ==
    IF NonNull(S, c) = {} THEN NULL
    ELSE Val(CHOOSE m \in { r[c][1] : r \in NonNull(S, c) } :
                 \A r \in NonNull(S, c) : m >= r[c][1])

\* SUM(CASE WHEN deployment_status = st THEN 1 ELSE 0 END): NULL over no row
SumCase(S, st) ==
    IF S = {} THEN NULL
    ELSE Val(Cardinality({ r \in S : r.deployment_status = Val(st) }))

\* WHERE deployment_status != 'in-progress': a comparison with NULL is not true
NotInProgress_all(r) == TRUE

NotInProgress(r) == r.deployment_status # NULL /\ r.deployment_status # Val("in-progress")

\* CASE WHEN health_check_success = 1
HealthChecked_all(r) == TRUE

HealthChecked(r) == r.health_check_success = Val(1)

\* the row get_deployment_statistics returns
get_deployment_statistics(rows) ==
    LET S == { r \in rows : NotInProgress(r) }
        H == { r \in S : HealthChecked(r) }
    IN  [total_deployments |-> Val(Cardinality(S)),
         avg_duration |-> AVG(S, "total_duration"),
         avg_downtime |-> AVG(S, "downtime_duration"),
         min_duration |-> MIN(S, "total_duration"),
         max_duration |-> MAX(S, "total_duration"),
         successful_deployments |-> SumCase(S, "success"),
         failed_deployments |-> SumCase(S, "failed"),
         avg_health_check_time |-> AVG(H, "health_check_duration")]

\* ORDER BY deployment_started_at DESC: every order the query may produce
\* (rows with equal deployment_started_at come in any order)
OrderByStartedDesc_asc(rows) ==
    LET n == Cardinality(rows)
    IN  { s \in [1..n -> rows] :
            /\ \A i, j \in 1..n : i # j => s[i] # s[j]
            /\ \A i, j \in 1..n :
                  i < j => s[i].deployment_started_at[1] <= s[j].deployment_started_at[1] }

OrderByStartedDesc(rows) ==
    LET n == Cardinality(rows)
    IN  { s \in [1..n -> rows] :
            /\ \A i, j \in 1..n : i # j => s[i] # s[j]
            /\ \A i, j \in 1..n :
                  i < j => s[i].deployment_started_at[1] >= s[j].deployment_started_at[1] }

\* LIMIT ?: a negative limit means no limit
Limit(s, limit) ==
    IF limit < 0 \/ limit >= Len(s) THEN s ELSE SubSeq(s, 1, limit)

\* the lists get_deployment_metrics(limit) can return
get_deployment_metrics(rows, limit) == { Limit(s, limit) : s \in OrderByStartedDesc(rows) }

\* the values get_latest_deployment_metrics can return (NULL for None)
get_latest_deployment_metrics(rows) ==
    { IF s = << >> THEN NULL ELSE Val(s[1]) : s \in get_deployment_metrics(rows, 1) }

\* ------------------------------------------------------------- the calls
\* arguments the calls are made with
VersionArgs == {"2.3.0", "2.2.9"}

Limits == {1, 5}

One(c, v) == [k \in {c} |-> v]

\* keyword arguments of update_deployment_phase (the key id is held as the
\* integer it is, the other columns as values that can be NULL)
FieldMaps ==
    { EmptyMap,
      One("extract_duration", Val(12)),
      One("total_duration", Val(2)),
      One("deployment_status", Val("success")),
      One("deployment_status", Val("in-progress")),
      One("deployment_status", Val("cancelled")),
      One("deployment_status", NULL),
      One("deployment_started_at", Val(0)),
      One("version", Val("2.2.9")),
      One("version", NULL),
      One("id", 0),
      One("health_check_success", Val(1)) @@ One("health_check_duration", Val(4)),
      One("no_such_column", Val(1)) }

Args(st, err, td, dd, hcs, hcd, tth) ==
    [status |-> st, error_message |-> err, total_duration |-> td,
     downtime_duration |-> dd, health_check_success |-> hcs,
     health_check_duration |-> hcd, time_to_healthy |-> tth]

\* arguments of complete_deployment: the defaults, the two scenarios of the
\* specification, zero durations, a failed health check with a duration
CompleteArgs ==
    { Args("success", NULL, NULL, NULL, FALSE, NULL, NULL),
      Args("success", NULL, Val(4), Val(2), TRUE, Val(2), Val(3)),
      Args("success", NULL, Val(0), Val(0), TRUE, Val(0), NULL),
      Args("failed", Val("health check timeout"), NULL, NULL, FALSE, NULL, NULL),
      Args("failed", Val("health check timeout"), Val(2), NULL, FALSE, Val(2), NULL) }

\* datetime.now(): the clock does not go back
ClockReadings(n) == { t \in n..(n + 1) : t <= MaxNow }

\* AUTOINCREMENT: one more than the largest id ever present
NextId_rowid(rows, seq) == SetMax({0} \cup { r.id : r \in rows }) + 1

NextId(rows, seq) == SetMax({seq} \cup { r.id : r \in rows }) + 1

\* ids a caller can pass: those of the rows, and one that names no row
Ids == { r.id : r \in deployment_metrics } \cup { NextId(deployment_metrics, sqlite_sequence) }

\* the keyword arguments tried with an id: all of them for the id of a
\* record; for an id that names no record, where the UPDATE matches no row
\* whatever it sets, one for each outcome (return without a statement,
\* rowcount 0, unknown column)
FieldMapsFor(id) ==
    IF id \in { r.id : r \in deployment_metrics } THEN FieldMaps
    ELSE { EmptyMap, One("total_duration", Val(2)), One("no_such_column", Val(1)) }

\* the arguments of complete_deployment tried with an id: the defaults only
\* for an id that names no record
CompleteArgsFor(id) ==
    IF id \in { r.id : r \in deployment_metrics } THEN CompleteArgs
    ELSE { Args("success", NULL, NULL, NULL, FALSE, NULL, NULL) }

Call(op, id, f, raised, result) ==
    [op |-> op, id |-> id, fields |-> f, raised |-> raised, result |-> result]

\* a call that changes the rows counts against MaxWrites
Counted(rows) ==
    /\ rows # deployment_metrics => ops < MaxWrites
    /\ ops' = IF rows # deployment_metrics THEN ops + 1 ELSE ops

start_deployment_tracking(v, t) ==
    /\ last = NoCall
    /\ now' = t
    /\ before' = deployment_metrics
    /\ LET id == NextId(deployment_metrics, sqlite_sequence)
           row == NewRow(id, Val(v), t)
           f == One("version", Val(v)) @@ One("deployment_started_at", Val(t))
       IN  IF "deployment_metrics" \notin tables
             THEN /\ last' = Call("start", 0, f, "OperationalError", NULL)
                  /\ UNCHANGED <<deployment_metrics, sqlite_sequence, returned>>
           ELSE IF ~Constraints(deployment_metrics \cup {row})
             THEN /\ last' = Call("start", 0, f, "IntegrityError", NULL)
                  /\ UNCHANGED <<deployment_metrics, sqlite_sequence, returned>>
           ELSE /\ deployment_metrics' = deployment_metrics \cup {row}
                /\ sqlite_sequence' = id
                /\ returned' = Append(returned, id)
                /\ last' = Call("start", id, f, "", Val(id))
    /\ Counted(deployment_metrics')
    /\ UNCHANGED mvars

update_deployment_phase(id, f) ==
    /\ last = NoCall
    /\ before' = deployment_metrics
    /\ IF DOMAIN f = {}
         THEN \* if not fields: return
              /\ last' = Call("update", id, f, "", NULL)
              /\ UNCHANGED deployment_metrics
         ELSE LET u == Update(tables, deployment_metrics, id, f)
              IN  /\ deployment_metrics' = u.rows
                  /\ last' = Call("update", id, f, u.raised,
                                  IF u.raised = "" THEN Val(u.rowcount) ELSE NULL)
    /\ Counted(deployment_metrics')
    /\ UNCHANGED <<sqlite_sequence, now, returned>>
    /\ UNCHANGED mvars

\* the SET list of complete_deployment
CompleteSet_supplied(a, t) ==
    LET full == [deployment_completed_at |-> Val(t),
                 deployment_status |-> Val(a.status),
                 error_message |-> a.error_message,
                 total_duration |-> a.total_duration,
                 downtime_duration |-> a.downtime_duration,
                 health_check_success |-> Val(IF a.health_check_success THEN 1 ELSE 0),
                 health_check_duration |-> a.health_check_duration,
                 time_to_healthy |-> a.time_to_healthy]
    IN  [c \in { k \in DOMAIN full : full[k] # NULL } |-> full[c]]

CompleteSet(a, t) ==
    [deployment_completed_at |-> Val(t),
     deployment_status |-> Val(a.status),
     error_message |-> a.error_message,
     total_duration |-> a.total_duration,
     downtime_duration |-> a.downtime_duration,
     health_check_success |-> Val(IF a.health_check_success THEN 1 ELSE 0),
     health_check_duration |-> a.health_check_duration,
     time_to_healthy |-> a.time_to_healthy]

complete_deployment(id, a, t) ==
    /\ last = NoCall
    /\ now' = t
    /\ before' = deployment_metrics
    /\ LET u == Update(tables, deployment_metrics, id, CompleteSet(a, t))
       IN  /\ deployment_metrics' = u.rows
           /\ last' = Call("complete", id, CompleteSet(a, t), u.raised,
                           IF u.raised = "" THEN Val(u.rowcount) ELSE NULL)
    /\ Counted(deployment_metrics')
    /\ UNCHANGED <<sqlite_sequence, returned>>
    /\ UNCHANGED mvars

\* execute_query: the SELECT raises when the table does not exist
Query(op, f, results) ==
    /\ last = NoCall
    /\ before' = deployment_metrics
    /\ IF "deployment_metrics" \notin tables
         THEN last' = Call(op, 0, f, "OperationalError", NULL)
         ELSE \E res \in results : last' = Call(op, 0, f, "", res)
    /\ UNCHANGED <<deployment_metrics, sqlite_sequence, now, returned, ops>>
    /\ UNCHANGED mvars

ReadMetrics(limit) ==
    Query("metrics", One("limit", limit), get_deployment_metrics(deployment_metrics, limit))

ReadLatest == Query("latest", EmptyMap, get_latest_deployment_metrics(deployment_metrics))

ReadStatistics ==
    Query("statistics", EmptyMap, { get_deployment_statistics(deployment_metrics) })

\* the caller has taken the outcome of its call
Return ==
    /\ last # NoCall
    /\ last' = NoCall
    /\ before' = {}
    /\ UNCHANGED <<deployment_metrics, sqlite_sequence, now, returned, ops>>
    /\ UNCHANGED mvars

\* ------------------------------------------------------- mock_service.py
\* request paths: the two health paths and another one
Paths == {"/health", "/", "/metrics"}

\* a read of the handler that raises for a reason outside the handler (the
\* store is locked by a writer, the file cannot be opened): none, or one of
\* the three reads
ReadFaults == {"", "history", "metrics", "statistics"}

\* round(x, 2) of the rational x = n/d, n >= 0: the nearest multiple of 1/100,
\* the even one when two are equally near
Round2(x) ==
    LET k == (100 * x[1]) \div x[2]
        rem == (100 * x[1]) % x[2]
    IN  Ratio(IF 2 * rem > x[2] \/ (2 * rem = x[2] /\ k % 2 = 1) THEN k + 1 ELSE k, 100)

\* round(x, 2) if x else None, of an average
RoundedAvg(x) == IF x = NULL \/ x[1][1] = 0 THEN NULL ELSE Val(Round2(x[1]))

\* round(x, 2) if x else None, of a minimum or maximum (whole seconds here)
RoundedNum(x) == IF x = NULL \/ x[1] = 0 THEN NULL ELSE x

\* response['deployment_statistics']
StatisticsEntry(stats) ==
    [total_deployments |-> stats.total_deployments,
     successful_deployments |-> stats.successful_deployments,
     failed_deployments |-> stats.failed_deployments,
     avg_duration |-> RoundedAvg(stats.avg_duration),
     avg_downtime |-> RoundedAvg(stats.avg_downtime),
     min_duration |-> RoundedNum(stats.min_duration),
     max_duration |-> RoundedNum(stats.max_duration),
     avg_health_check_time |-> RoundedAvg(stats.avg_health_check_time)]

\* one entry of response['deployment_metrics']
MetricsEntry(m) ==
    [version |-> m.version,
     deployment_started_at |-> m.deployment_started_at,
     deployment_completed_at |-> m.deployment_completed_at,
     total_duration |-> m.total_duration,
     downtime_duration |-> m.downtime_duration,
     extract_duration |-> m.extract_duration,
     health_check_success |-> (m.health_check_success \notin {NULL, Val(0)}),
     time_to_healthy |-> m.time_to_healthy,
     status |-> m.deployment_status]

\* the response dictionary before the store is read
Liveness ==
    [status |-> "healthy", service |-> "DicomGatewayMock",
     version |-> "VERSION", python_version |-> "sys.version"]

\* the exception a read of table t raises, "" for none
ReadError(t, what, fault) ==
    IF fault = what THEN "database is locked"
    ELSE IF t \notin tables THEN "no such table"
    ELSE ""

\* except Exception as e: the handler keeps what it has and adds the message
Except_500(code, body, e) == [code |-> 500, body |-> EmptyMap]

Except(code, body, e) == [code |-> code, body |-> body @@ One("deployment_history_error", e)]

\* the responses do_GET can give on a health path.  No call of the model
\* writes the legacy table deployment_history, so its list is empty.
HealthResponses(fault) ==
    LET e1 == ReadError("deployment_history", "history", fault)
        e2 == ReadError("deployment_metrics", "metrics", fault)
        e3 == ReadError("deployment_metrics", "statistics", fault)
        r1 == Liveness @@ [deployment_history |-> << >>, current_deployment |-> NULL]
    IN  IF e1 # "" THEN { Except(200, Liveness, e1) }
        ELSE IF e2 # "" THEN { Except(200, r1, e2) }
        ELSE { LET r2 == r1 @@ One("deployment_metrics",
                                   [i \in DOMAIN ms |-> MetricsEntry(ms[i])])
               IN  IF e3 # "" THEN Except(200, r2, e3)
                   ELSE [code |-> 200,
                         body |-> r2 @@ One("deployment_statistics",
                             StatisticsEntry(get_deployment_statistics(deployment_metrics)))]
               : ms \in get_deployment_metrics(deployment_metrics, 5) }

\* HealthHandler.do_GET
do_GET(path, fault) ==
    /\ last = NoCall
    /\ before' = deployment_metrics
    /\ IF path \in {"/health", "/"}
         THEN \E resp \in HealthResponses(fault) :
                  last' = Call("GET", 0, One("path", path) @@ One("fault", fault), "", resp)
         ELSE last' = Call("GET", 0, One("path", path), "", [code |-> 404, body |-> EmptyMap])
    /\ UNCHANGED <<deployment_metrics, sqlite_sequence, now, returned, ops>>
    /\ UNCHANGED mvars

\* the store after one migrate run of a fresh store within one second
InitMigrated ==
    /\ tables = AllStructures \cup {"schema_version"}
    /\ schema_version = { [version |-> v, applied_at |-> 1] : v \in DOMAIN MIGRATIONS }
    /\ pending = {}
    /\ clock = 1
    /\ pc = "done"
    /\ current_version = 0
    /\ version = TARGET_VERSION + 1
    /\ stmt = Len(MIGRATIONS[TARGET_VERSION])
    /\ ret = 0
    /\ called = <<1, 2, 3, 4>>
    /\ warned = << >>
    /\ registry = DOMAIN MIGRATIONS
    /\ run_start = [tables |-> {}, rows |-> {}]
    /\ last_commit = [tables |-> tables, rows |-> schema_version]
    /\ failed_at = 0
    /\ faulted = FALSE
    /\ runs = 1
    /\ faults = 0

\* the tracker is used on a migrated store, or on one not migrated yet
InitTrk == (InitMigrated \/ InitMig) /\ InitTracker

NextTrk ==
    \/ \E v \in VersionArgs, t \in ClockReadings(now) : start_deployment_tracking(v, t)
    \/ \E id \in Ids : \E f \in FieldMapsFor(id) : update_deployment_phase(id, f)
    \/ \E id \in Ids :
          \E a \in CompleteArgsFor(id), t \in ClockReadings(now) : complete_deployment(id, a, t)
    \/ \E limit \in Limits : ReadMetrics(limit)
    \/ ReadLatest
    \/ ReadStatistics
    \/ \E path \in Paths, fault \in ReadFaults : do_GET(path, fault)
    \/ Return

SpecTrk == InitTrk /\ [][NextTrk]_vars

\* ------------------------------------------------------ migration claims

\* highest version present in schema_version, 0 for a missing or empty table
MaxVersion(tbls, rows) ==
    IF "schema_version" \notin tbls \/ rows = {} THEN 0 ELSE SetMax(Versions(rows))

\* C1: a run that starts with current version c and target T calls the
\* registered steps for exactly c+1..T, each once, in increasing order, and
\* none with version <= c or > T; a run that is cut short by an exception has
\* called a prefix of that sequence.
C1_StepsInRange ==
    /\ \A i \in 1..Len(called) :
          /\ called[i] = current_version + i
          /\ called[i] <= TARGET_VERSION
          /\ called[i] \in DOMAIN MIGRATIONS
    /\ (pc = "done" /\ ret = 0) =>
          Len(called) = (IF current_version >= TARGET_VERSION THEN 0
                         ELSE TARGET_VERSION - current_version)

\* a successful run that resumed at version 3 called exactly steps 3 and 4
C1_Witness ==
    pc = "done" /\ ret = 0 /\ current_version = 2 /\ called = <<3, 4>>

\* C2: each step is atomic: when a run has ended, the structures of a step
\* exist in the store only together with the step's schema_version row.
C2_StepAtomic ==
    pc = "done" =>
        \A v \in DOMAIN MIGRATIONS :
            (Structures(v) \cap tables # {}) => v \in Versions(schema_version)

\* C3: currentVersion returns the highest version present in schema_version
\* (0 for a missing or empty table), whatever the applied_at values are.
C3_CurrentVersionIsMax ==
    (pc = "check" /\ ~faulted) => current_version = MaxVersion(tables, schema_version)

\* C4: after a successful migrate, currentVersion equals the target and every
\* version in 1..target has exactly one SchemaVersionRecord.
C4_VersionEqualsTarget ==
    (pc = "done" /\ ret = 0) =>
        /\ get_schema_version(tables, schema_version) = {TARGET_VERSION}
        /\ \A v \in 1..TARGET_VERSION :
              Cardinality({ r \in schema_version : r.version = v }) = 1

\* C5: a migrate call on an already migrated store returns success, runs no
\* step and leaves the rows and the structures as they were.
C5_Idempotent ==
    (pc = "done" /\ ~faulted /\ Versions(run_start.rows) = 1..TARGET_VERSION) =>
        /\ ret = 0
        /\ called = << >>
        /\ Store = run_start

\* C6: when the step for version v raises, no later step is run, the run
\* returns non-zero and the store is exactly as the last committed step left it.
C6_FailureLeavesCommittedState ==
    (pc = "done" /\ failed_at # 0) =>
        /\ ret = 1
        /\ called[Len(called)] = failed_at
        /\ Store = last_commit

\* -------------------------------------------------------- tracker claims
IdsOf(rows) == { r.id : r \in rows }

RowOf(rows, id) == CHOOSE r \in rows : r.id = id

Completed(r) == r.deployment_status \in { Val("success"), Val("failed") }

\* the id, after the last call, of the record r of before: a call that
\* supplies id renumbers its record
IdAfter(r) ==
    IF /\ last.op \in {"update", "complete"}
       /\ last.raised = ""
       /\ last.id = r.id
       /\ "id" \in DOMAIN last.fields
      THEN last.fields.id
      ELSE r.id

\* C7, as claimed: once a record's status is success or failed, no later
\* reportPhase or completeDeployment call on its id changes any of its fields.
C7_CompletedIsFrozen ==
    (last.op \in {"update", "complete"}) =>
        \A r \in before : (r.id = last.id /\ Completed(r)) => r \in deployment_metrics

\* C7, amended: a record whose status is success or failed is never removed,
\* and a field of it changes only by a reportPhase or completeDeployment call
\* on its own id that supplies that field, which then holds the supplied value
\* (so the status returns to in-progress only when such a call supplies it).
C7_CompletedChangesOnlyBySuppliedFields ==
    \A r \in before :
        Completed(r) =>
            /\ IdAfter(r) \in IdsOf(deployment_metrics)
            /\ \A c \in Columns :
                  RowOf(deployment_metrics, IdAfter(r))[c] # r[c] =>
                      /\ last.op \in {"update", "complete"}
                      /\ last.id = r.id
                      /\ c \in DOMAIN last.fields
                      /\ RowOf(deployment_metrics, IdAfter(r))[c] = last.fields[c]

\* a reportPhase call on a completed record supplied deployment_status and
\* put the record back to in-progress
C7_Witness ==
    /\ last.op = "update"
    /\ last.raised = ""
    /\ \E r \in before :
          /\ r.id = last.id
          /\ Completed(r)
          /\ RowOf(deployment_metrics, IdAfter(r)).deployment_status = Val("in-progress")

\* C8: reportPhase(id, fields) changes exactly the supplied fields of the
\* record with that id and nothing else; with an empty field set, an unknown
\* id, or when the statement raises, the rows are as before; no record is
\* created or removed.
C8_ReportPhaseFrame ==
    last.op = "update" =>
        /\ IdsOf(deployment_metrics) = { IdAfter(r) : r \in before }
        /\ Cardinality(deployment_metrics) = Cardinality(before)
        /\ (DOMAIN last.fields = {} \/ last.id \notin IdsOf(before) \/ last.raised # "")
              => deployment_metrics = before
        /\ \A r \in before :
              \A c \in Columns :
                  RowOf(deployment_metrics, IdAfter(r))[c] =
                      IF r.id = last.id /\ last.raised = "" /\ c \in DOMAIN last.fields
                        THEN last.fields[c]
                        ELSE r[c]

\* reportPhase changed one of two records
C8_Witness ==
    /\ last.op = "update"
    /\ last.raised = ""
    /\ DOMAIN last.fields # {}
    /\ last.id \in IdsOf(before)
    /\ Cardinality(before) = 2
    /\ deployment_metrics # before

\* the record with the id of the last call has never been completed
\* (no call in FieldMaps writes deployment_completed_at)
NeverCompleted(rows, id) ==
    \E r \in rows : r.id = id /\ r.deployment_completed_at = NULL

\* C9, as claimed: startDeployment, and any reportPhase call on a record that
\* has not been completed, leaves every aggregate of statistics() unchanged.
C9_UncompletedNeverCounts ==
    (last.raised = "" /\ (\/ last.op = "start"
                          \/ last.op = "update" /\ NeverCompleted(before, last.id))) =>
        get_deployment_statistics(deployment_metrics) = get_deployment_statistics(before)

\* C9, amended: startDeployment, and any reportPhase call on a record that
\* has not been completed and whose status is in-progress before and after
\* the call, leaves every aggregate of statistics() unchanged.
C9_InProgressNeverCounts ==
    (last.raised = "" /\ (\/ last.op = "start"
                          \/ /\ last.op = "update"
                             /\ NeverCompleted(before, last.id)
                             /\ RowOf(before, last.id).deployment_status = Val("in-progress")
                             /\ RowOf(deployment_metrics, IdAfter(RowOf(before, last.id))).deployment_status = Val("in-progress"))) =>
        get_deployment_statistics(deployment_metrics) = get_deployment_statistics(before)

\* a deployment was started, and a duration reported on an in-progress
\* record, while a completed record with a duration is being aggregated
C9_Witness ==
    /\ last.raised = ""
    /\ \/ last.op = "start"
       \/ /\ last.op = "update"
          /\ NeverCompleted(before, last.id)
          /\ RowOf(before, last.id).deployment_status = Val("in-progress")
          /\ RowOf(deployment_metrics, IdAfter(RowOf(before, last.id))).deployment_status = Val("in-progress")
    /\ deployment_metrics # before
    /\ get_deployment_statistics(deployment_metrics).avg_duration # NULL

\* C10: statistics().total_deployments equals the number of records of an
\* unbounded historyByTime whose status is not in-progress.
C10_TotalMatchesHistory ==
    "deployment_metrics" \in tables =>
        \A h \in get_deployment_metrics(deployment_metrics, -1) :
            get_deployment_statistics(deployment_metrics).total_deployments =
                Val(Cardinality({ i \in 1..Len(h) : h[i].deployment_status # Val("in-progress") }))

\* the records statistics() is about: completed ones, whose status is set and
\* is not in-progress
CompletedRecords(rows) ==
    { r \in rows : r.deployment_status \notin {NULL, Val("in-progress")} }

\* a is the rational sum/count of column c over the rows of D (absent for no row)
IsMeanOf(a, D, c) ==
    IF D = {} THEN a = NULL
    ELSE /\ a # NULL
         /\ a[1][1] * Cardinality(D) = SumCol(D, c) * a[1][2]

AbsentOnlyWithoutValues(st, rows) ==
    LET Q == CompletedRecords(rows)
        H == { r \in Q : r.health_check_success = Val(1) }
    IN  /\ Q = {} => \A k \in DOMAIN st : st[k] = NULL
        /\ Q # {} => /\ st.total_deployments # NULL
                      /\ st.successful_deployments # NULL
                      /\ st.failed_deployments # NULL
        /\ (\E r \in Q : r.total_duration # NULL) =>
               /\ st.avg_duration # NULL
               /\ st.min_duration # NULL
               /\ st.max_duration # NULL
        /\ (\E r \in Q : r.downtime_duration # NULL) => st.avg_downtime # NULL
        /\ (\E r \in H : r.health_check_duration # NULL) => st.avg_health_check_time # NULL

\* the aggregates as get_deployment_statistics returns them
C12_InStatistics ==
    (last.op = "statistics" /\ last.raised = "") =>
        AbsentOnlyWithoutValues(last.result, deployment_metrics)

\* the aggregates as the health response reports them
C12_InHealthResponse ==
    (last.op = "GET" /\ "deployment_statistics" \in DOMAIN last.result.body) =>
        AbsentOnlyWithoutValues(last.result.body.deployment_statistics, deployment_metrics)

\* C12: when no record has a status other than in-progress, every aggregate
\* of statistics(), the three counts included, is reported as absent and not
\* as zero; an aggregate over at least one qualifying value is never reported
\* as absent (an average of 0 seconds is reported as 0).
C12_AbsentIffNothingQualifies == C12_InStatistics /\ C12_InHealthResponse

\* the records of rows with the version and started_at of the last start call
SamePair(rows) ==
    { r \in rows : /\ r.version = last.fields.version
                   /\ r.deployment_started_at = last.fields.deployment_started_at }

\* C13: no two records have the same version and the same started_at, in
\* every reachable state; a startDeployment call with the version and the
\* instant of an existing record creates no record and raises an error.
\* (Calls are serialised: SQLite admits one writer at a time.)
C13_VersionStartedAtUnique ==
    /\ \A r1, r2 \in deployment_metrics :
          (r1.version = r2.version /\ r1.deployment_started_at = r2.deployment_started_at)
              => r1 = r2
    /\ (last.op = "start" /\ SamePair(before) # {}) =>
          /\ last.raised # ""
          /\ deployment_metrics = before

\* a second startDeployment with the same version at the same instant was
\* rejected
C13_Witness ==
    /\ last.op = "start"
    /\ SamePair(before) # {}
    /\ last.raised = "IntegrityError"

Min2(a, b) == IF a <= b THEN a ELSE b

StartedAt(r) == r.deployment_started_at[1]

\* h is min(limit, number of rows) distinct records of rows, newest started_at
\* first, and no record left out is newer than one of h
IsNewestFirst(h, rows, limit) ==
    /\ Len(h) = Min2(limit, Cardinality(rows))
    /\ \A i \in 1..Len(h) : h[i] \in rows
    /\ \A i, j \in 1..Len(h) : i # j => h[i] # h[j]
    /\ \A i, j \in 1..Len(h) : i < j => StartedAt(h[i]) >= StartedAt(h[j])
    /\ \A r \in rows :
          (\A i \in 1..Len(h) : h[i] # r) =>
              \A i \in 1..Len(h) : StartedAt(h[i]) >= StartedAt(r)

\* C14: historyByTime(limit) returns min(limit, number of records) records
\* ordered by started_at descending, containing the records with the newest
\* started_at; latest() returns absent on an empty store and otherwise the
\* record that historyByTime(1) returns first: a result of the same query,
\* which is a newest record.
C14_HistoryNewestFirst ==
    /\ (last.op = "metrics" /\ last.raised = "") =>
          IsNewestFirst(last.result, deployment_metrics, last.fields.limit)
    /\ (last.op = "latest" /\ last.raised = "") =>
          IF deployment_metrics = {} THEN last.result = NULL
          ELSE /\ last.result # NULL
               /\ IsNewestFirst(<<last.result[1]>>, deployment_metrics, 1)
               /\ <<last.result[1]>> \in get_deployment_metrics(deployment_metrics, 1)

\* historyByTime(1) on two records started at different instants returned
\* the newer one only
C14_Witness ==
    /\ last.op = "metrics"
    /\ last.raised = ""
    /\ last.fields.limit = 1
    /\ Cardinality(deployment_metrics) = 2
    /\ Len(last.result) = 1
    /\ \E r \in deployment_metrics : StartedAt(r) < StartedAt(last.result[1])

\* C15: every successful startDeployment returns an id greater than, so
\* different from, every id returned before, and creates a record with that
\* id, status in-progress and completed_at absent; the id is the id of no
\* record that existed before the call, whatever calls were made in between.
C15_IdsIncreaseNeverReused ==
    /\ \A i, j \in 1..Len(returned) : i < j => returned[i] < returned[j]
    /\ (last.op = "start" /\ last.raised = "") =>
          /\ last.result = Val(returned[Len(returned)])
          /\ returned[Len(returned)] \notin IdsOf(before)
          /\ \E r \in deployment_metrics \ before :
                /\ r.id = returned[Len(returned)]
                /\ r.deployment_status = Val("in-progress")
                /\ r.deployment_completed_at = NULL
                /\ deployment_metrics = before \cup {r}

\* a second startDeployment succeeded after the first record was renumbered
\* to an id below the one returned for it
C15_Witness ==
    /\ last.op = "start"
    /\ last.raised = ""
    /\ Len(returned) = 2
    /\ \A r \in before : r.id < returned[1]
    /\ before # {}

\* C16: started_at is immutable: whatever field maps reportPhase and
\* completeDeployment are called with, every record keeps the started_at that
\* startDeployment assigned to it.
C16_StartedAtImmutable ==
    (last.op \in {"update", "complete"}) =>
        \A r \in before :
            \E q \in deployment_metrics :
                /\ q.id = IdAfter(r)
                /\ q.deployment_started_at = r.deployment_started_at

\* C17: the status of every record is one of in-progress, success and
\* failed in every reachable state, whatever arguments the calls are given.
C17_StatusInDomain ==
    \A r \in deployment_metrics :
        r.deployment_status \in { Val("in-progress"), Val("success"), Val("failed") }

\* C18: on a store where the deployment table does not exist, historyByTime
\* returns an empty sequence, latest returns absent and statistics returns
\* absent aggregates, each without raising, and currentVersion returns 0.
C18_StructuralAbsenceRecovered ==
    "deployment_metrics" \notin tables =>
        /\ last.op = "metrics" => (last.raised = "" /\ last.result = << >>)
        /\ last.op = "latest" => (last.raised = "" /\ last.result = NULL)
        /\ last.op = "statistics" =>
              (last.raised = "" /\ \A k \in DOMAIN last.result : last.result[k] = NULL)
        /\ "schema_version" \notin tables =>
              get_schema_version(tables, schema_version) = {0}

\* a read of the handler fails: it raises for an outside reason, or its table
\* does not exist
SomeReadFails ==
    \/ last.fields.fault # ""
    \/ "deployment_history" \notin tables
    \/ "deployment_metrics" \notin tables

\* C19: for a GET on the health path, whichever of the three store reads
\* fails, the response is 200 and carries the liveness fields (status
\* healthy, service, version, runtime version) and an error string for the
\* deployment data; a store failure never yields another status code.
C19_HealthAlways200 ==
    (last.op = "GET" /\ last.fields.path \in {"/health", "/"}) =>
        /\ last.result.code = 200
        /\ \A k \in DOMAIN Liveness :
              k \in DOMAIN last.result.body /\ last.result.body[k] = Liveness[k]
        /\ SomeReadFails =>
              /\ "deployment_history_error" \in DOMAIN last.result.body
              /\ last.result.body.deployment_history_error # ""

\* the third read, of the statistics, failed after the two lists were read
C19_Witness ==
    /\ last.op = "GET"
    /\ last.fields.path = "/health"
    /\ last.fields.fault = "statistics"
    /\ "deployment_metrics" \in DOMAIN last.result.body
    /\ "deployment_history_error" \in DOMAIN last.result.body
    /\ last.result.code = 200

\* C20: on a fresh store currentVersion is 0 before any migration; after a
\* successful migrate of a fresh store to target 4, currentVersion is 4 and
\* there are exactly 4 schema_version rows, whose applied_at values are
\* strictly increasing with the version.
C20_FreshStoreMigratesToFour ==
    /\ (tables = {} /\ schema_version = {}) =>
          get_schema_version(tables, schema_version) = {0}
    /\ (pc = "done" /\ ret = 0 /\ run_start = [tables |-> {}, rows |-> {}]) =>
          /\ get_schema_version(tables, schema_version) = {TARGET_VERSION}
          /\ Cardinality(schema_version) = TARGET_VERSION
          /\ \A r1, r2 \in schema_version :
                r1.version < r2.version => r1.applied_at < r2.applied_at

\* s lists the elements of the set of versions S in increasing order
AscendingOf(s, S) ==
    /\ Len(s) = Cardinality(S)
    /\ { s[i] : i \in 1..Len(s) } = S
    /\ \A i, j \in 1..Len(s) : i < j => s[i] < s[j]

\* the versions of range(current_version + 1, TARGET_VERSION + 1)
PendingVersions == { v \in 1..TARGET_VERSION : v > current_version }

\* C21: when a version in (currentVersion, target] has no registered step,
\* the run does not fail: it warns for that version, calls every registered
\* step of the range in increasing order and returns success; a run returns
\* failure only when a statement raised.
C21_MissingStepOnlyWarns ==
    /\ (pc = "done" /\ ret = 0) =>
          /\ AscendingOf(warned, { v \in PendingVersions : v \notin registry })
          /\ AscendingOf(called, { v \in PendingVersions : v \in registry })
    /\ (pc = "done" /\ ret # 0) => faulted
    /\ failed_at # 0 => failed_at \in registry

\* a run warned for a missing version, then called a later step and
\* returned success
C21_Witness ==
    /\ pc = "done"
    /\ ret = 0
    /\ warned # << >>
    /\ \E i \in 1..Len(called) : called[i] > warned[1]
    /\ \E i \in 1..Len(called) : called[i] < warned[1]

\* the last call wrote deployment_status of the record r of before
StatusSupplied(r) ==
    /\ last.op \in {"update", "complete"}
    /\ last.id = r.id
    /\ last.raised = ""
    /\ "deployment_status" \in DOMAIN last.fields

\* C22, as claimed: a record for which completeDeployment was never called
\* has status in-progress, whatever startDeployment, reportPhase and read
\* calls were made.
C22_NeverCompletedIsInProgress ==
    \A r \in deployment_metrics :
        r.deployment_completed_at = NULL => r.deployment_status = Val("in-progress")

\* C22, amended: startDeployment creates a record with status in-progress,
\* and the status of a record stays in-progress through every call other
\* than a completeDeployment, or a reportPhase whose field map supplies
\* deployment_status, on its id.
C22_InProgressUntilStatusSupplied ==
    /\ (last.op = "start" /\ last.raised = "") =>
          \A r \in deployment_metrics \ before : r.deployment_status = Val("in-progress")
    /\ \A r \in before :
          (r.deployment_status = Val("in-progress") /\ ~StatusSupplied(r)) =>
              /\ IdAfter(r) \in IdsOf(deployment_metrics)
              /\ RowOf(deployment_metrics, IdAfter(r)).deployment_status = Val("in-progress")

\* a reportPhase call without deployment_status changed a record that an
\* earlier reportPhase had already changed, and the record is still in-progress
C22_Witness ==
    /\ last.op = "update"
    /\ last.raised = ""
    /\ deployment_metrics # before
    /\ \E r \in before :
          /\ r.id = last.id
          /\ ~StatusSupplied(r)
          /\ r.deployment_completed_at = NULL
          /\ r.deployment_status = Val("in-progress")
          /\ r # NewRow(r.id, r.version, r.deployment_started_at[1])
          /\ RowOf(deployment_metrics, IdAfter(r)).deployment_status = Val("in-progress")

\* a count that statistics() reports, absent counted as none
CountOf(x) == IF x = NULL THEN 0 ELSE x[1]

\* the last call completed a deployment in progress with status failed and
\* healthCheckSuccess false
CompletedAsFailed ==
    /\ last.op = "complete"
    /\ last.raised = ""
    /\ last.fields.deployment_status = Val("failed")
    /\ last.fields.health_check_success = Val(0)
    /\ \E r \in before : r.id = last.id /\ r.deployment_status = Val("in-progress")

CompletionColumns ==
    {"error_message", "total_duration", "downtime_duration", "health_check_success",
     "health_check_duration", "time_to_healthy"}

\* C24: completeDeployment overwrites error_message, total_duration,
\* downtime_duration, health_check_success, health_check_duration and
\* time_to_healthy with its arguments, absent (false for health_check_success)
\* when the argument is omitted, whatever was stored before; besides the
\* status and completed_at it sets, every other field of the record, and
\* every other record, is left unchanged.
C24_CompleteOverwrites ==
    (last.op = "complete" /\ last.raised = "") =>
        /\ Cardinality(deployment_metrics) = Cardinality(before)
        /\ \A r \in before :
              /\ r.id \in IdsOf(deployment_metrics)
              /\ IF r.id # last.id THEN r \in deployment_metrics
                 ELSE \A c \in Columns :
                        RowOf(deployment_metrics, r.id)[c] =
                            IF c \in CompletionColumns
                              THEN (IF c \in DOMAIN last.fields THEN last.fields[c] ELSE NULL)
                            ELSE IF c \in {"deployment_completed_at", "deployment_status"}
                              THEN last.fields[c]
                            ELSE r[c]

\* a completeDeployment call without totalDuration erased the total_duration
\* that reportPhase had stored
C24_Witness ==
    /\ last.op = "complete"
    /\ last.raised = ""
    /\ \E r \in before :
          /\ r.id = last.id
          /\ r.total_duration # NULL
          /\ RowOf(deployment_metrics, r.id).total_duration = NULL

\* the first version without a row in rows
FirstMissing(rows) ==
    CHOOSE v \in 1..(TARGET_VERSION + 1) :
        /\ v \notin Versions(rows)
        /\ \A w \in 1..(v - 1) : w \in Versions(rows)

\* C25: migration is resumable: a run in which every step succeeds, made
\* after an earlier run failed at a step, starts at the first version without
\* a schema_version row and ends with currentVersion equal to the target and
\* exactly one row per version 1..target.  (The run resumes: the store it
\* found holds structures of earlier steps and lacks a row of some version.)
C25_ResumesAtFirstMissing ==
    (/\ pc = "done" /\ ret = 0 /\ ~faulted
     /\ runs > 1
     /\ run_start.tables \ {"schema_version"} # {}
     /\ Versions(run_start.rows) # 1..TARGET_VERSION) =>
        /\ called # << >>
        /\ called[1] = FirstMissing(run_start.rows)
        /\ get_schema_version(tables, schema_version) = {TARGET_VERSION}
        /\ \A v \in 1..TARGET_VERSION :
              Cardinality({ r \in schema_version : r.version = v }) = 1

====
